---- MODULE Spec2Model ----
(***************************************************************************)
(* A model of package errors, file httperrors.go: the HTTPErr value, the   *)
(* variadic constructor RE and the responder HTTPError with its helper     *)
(* sendError.                                                              *)
(*                                                                         *)
(* One request is modelled: the handler may build an error with RE, may    *)
(* then mutate the values it holds pointers to, and finally hands an error *)
(* to HTTPError, which talks to the http.ResponseWriter and to the log.    *)
(***************************************************************************)
EXTENDS Integers, Sequences, FiniteSets, TLC

\* Longest argument list given to RE.
MaxArgs == 3
\* Number of mutations (SetErr, field assignment) between RE and HTTPError.
MaxMutations == 1

\* http.StatusInternalServerError
StatusInternalServerError == 500

----------------------------------------------------------------------------
(* Error values.  An error interface value is a record: k is its dynamic   *)
(* type, s its text (for the leaf types) and addr the address it points to *)
(* (for the pointer types).                                                *)

NilAddr == 0

\* the nil error interface value
NilErr == [k |-> "nil", s |-> "", addr |-> NilAddr]

\* errors.Str(s): a leaf error whose Error() is s
Str(s) == [k |-> "errorString", s |-> s, addr |-> NilAddr]

\* errors.Errorf(...): a leaf error holding the formatted text
Errorf(text) == [k |-> "errorString", s |-> text, addr |-> NilAddr]

\* MissingField(f): a leaf error whose Error() is f + " is required"
MissingField(f) == [k |-> "MissingField", s |-> f, addr |-> NilAddr]

\* a *Error pointing at address a of heapE (NilAddr: a nil *Error)
PError(a) == [k |-> "*Error", s |-> "", addr |-> a]

\* a *HTTPErr pointing at address a of heapH
PHTTPErr(a) == [k |-> "*HTTPErr", s |-> "", addr |-> a]

\* Kind: the enumerated kinds used here, KindZero being Kind's zero value
KindZero == "Zero"
Unanticipated == "Unanticipated"
NamedKinds == {"NotFound", "Invalid", Unanticipated}

\* Kind.String()
KindString(k) == IF k \in NamedKinds THEN k ELSE "Unanticipated"

\* &HTTPErr{}: the zero value of the struct
ZeroHTTPErr ==
    [HTTPStatusCode |-> 0, Kind |-> KindZero, Param |-> "", Code |-> "",
     Err |-> NilErr]

\* An Error struct value (the package's other error type), reduced to the
\* field that carries its text.
ErrorObj(text) == [Err |-> text]

VARIABLES
    pc,      \* where the request is: "start", "built", "done", "panicRE", "panicHTTPError"
    args,    \* the argument list of the call to RE
    ret,     \* the error RE returned
    heapE,   \* the Error structs in memory, by address
    heapH,   \* the HTTPErr structs in memory, by address
    nmut,    \* the mutations made since RE returned
    rerr,    \* the error given to HTTPError
    w,       \* the http.ResponseWriter: its header map and the calls made on it
    log      \* the lines written to the log

vars == <<pc, args, ret, heapE, heapH, nmut, rerr, w, log>>

----------------------------------------------------------------------------
(* The arguments of RE.  t is the argument's dynamic type, and n, s or e   *)
(* its value: n for an int, s for the string types, e for the error types. *)
(* A type the switch does not name is any other t, with s its %v text.     *)

IntArg(n) == [t |-> "int", n |-> n, s |-> "", e |-> NilErr]
KindArg(k) == [t |-> "Kind", n |-> 0, s |-> k, e |-> NilErr]
StringArg(s) == [t |-> "string", n |-> 0, s |-> s, e |-> NilErr]
CodeArg(s) == [t |-> "Code", n |-> 0, s |-> s, e |-> NilErr]
ParameterArg(s) == [t |-> "Parameter", n |-> 0, s |-> s, e |-> NilErr]
PErrorArg(a) == [t |-> "*Error", n |-> 0, s |-> "", e |-> PError(a)]
ErrorArg(e) == [t |-> "error", n |-> 0, s |-> "", e |-> e]
OtherArg(ty, v) == [t |-> ty, n |-> 0, s |-> v, e |-> NilErr]

\* the types the switch of RE names
RecognizedTypes == {"int", "Kind", "string", "Code", "Parameter", "*Error", "error"}

\* a new address of a heap
Fresh(heap) == Cardinality(DOMAIN heap) + 1

\* case int: e.HTTPStatusCode = arg
SetStatus(e, arg) == [e EXCEPT !.HTTPStatusCode = arg.n]

\* case Kind: e.Kind = arg
SetKind(e, arg) == [e EXCEPT !.Kind = arg.s]

\* case string: e.Code = Code(arg)
SetCodeFromString(e, arg) == [e EXCEPT !.Code = arg.s]

\* A slip in case Code: a code already set is kept (first one wins).
SetCodeKeepFirst(e, arg) == IF e.Code # "" THEN e ELSE [e EXCEPT !.Code = arg.s]

\* case Code: e.Code = arg
SetCode(e, arg) == [e EXCEPT !.Code = arg.s]

\* A slip in case Parameter: the value lands in Code.
SetParamAsCode(e, arg) == [e EXCEPT !.Code = arg.s]

\* case Parameter: e.Param = arg
SetParam(e, arg) == [e EXCEPT !.Param = arg.s]

\* A slip in case *Error: no copy is made, e.Err is arg itself.
CopyErrorAliases(e, hE, arg) == [e |-> [e EXCEPT !.Err = arg.e], hE |-> hE]

\* case *Error: copy := *arg; e.Err = &copy.  The struct at arg's address is
\* copied to a new address, and e.Err points at the new one.
CopyError(e, hE, arg) ==
    LET a == Fresh(hE)
    IN  [e |-> [e EXCEPT !.Err = PError(a)], hE |-> hE @@ (a :> hE[arg.e.addr])]

\* case error: e.Err = arg
SetCause(e, arg) == [e EXCEPT !.Err = arg.e]

\* One pass of RE's loop body over arg: e is the HTTPErr under construction,
\* hE the Error structs in memory.  tag is "ok" when the loop goes on, "bad"
\* when the default case returns, "panic" when the pass panics.
REStep(e, hE, arg) ==
    CASE arg.t = "int" -> [tag |-> "ok", e |-> SetStatus(e, arg), hE |-> hE]
      [] arg.t = "Kind" -> [tag |-> "ok", e |-> SetKind(e, arg), hE |-> hE]
      [] arg.t = "string" -> [tag |-> "ok", e |-> SetCodeFromString(e, arg), hE |-> hE]
      [] arg.t = "Code" -> [tag |-> "ok", e |-> SetCode(e, arg), hE |-> hE]
      [] arg.t = "Parameter" -> [tag |-> "ok", e |-> SetParam(e, arg), hE |-> hE]
      [] arg.t = "*Error" ->
            \* copy := *arg dereferences arg: a nil *Error panics here
            IF arg.e.addr = NilAddr
            THEN [tag |-> "panic", e |-> e, hE |-> hE]
            ELSE LET r == CopyError(e, hE, arg)
                 IN  [tag |-> "ok", e |-> r.e, hE |-> r.hE]
      [] arg.t = "error" -> [tag |-> "ok", e |-> SetCause(e, arg), hE |-> hE]
      [] OTHER -> [tag |-> "bad", e |-> e, hE |-> hE]

\* RE's loop from argument i on.
RECURSIVE RELoop(_, _, _, _)
RELoop(a, i, e, hE) ==
    IF i > Len(a)
    THEN [tag |-> "ok", e |-> e, hE |-> hE, bad |-> 0]
    ELSE LET r == REStep(e, hE, a[i])
         IN  IF r.tag = "ok"
             THEN RELoop(a, i + 1, r.e, r.hE)
             ELSE [tag |-> r.tag, e |-> r.e, hE |-> r.hE, bad |-> i]

\* RE(args...): tag "ok" with the HTTPErr built, "bad" with the index of the
\* argument of unknown type, or "panic".
RE(a, hE) ==
    IF Len(a) = 0
    THEN [tag |-> "panic", e |-> ZeroHTTPErr, hE |-> hE, bad |-> 0]
    ELSE RELoop(a, 1, ZeroHTTPErr, hE)

\* The text of the error RE returns for an argument of unknown type:
\* "unknown type %T, value %v in error call"
UnknownTypeText(arg) ==
    "unknown type " \o arg.t \o ", value " \o arg.s \o " in error call"

\* A line of the log.
LogLine(lvl, fmt, n, s) == [lvl |-> lvl, fmt |-> fmt, n |-> n, s |-> s]

\* The call RE(a...) made by the handler.
RECall(a) ==
    /\ pc = "start"
    /\ args' = a
    /\ LET r == RE(a, heapE)
       IN  CASE r.tag = "panic" ->
                   /\ pc' = "panicRE"
                   /\ UNCHANGED <<ret, heapE, heapH, log>>
             [] r.tag = "bad" ->
                   /\ pc' = "built"
                   /\ log' = Append(log, LogLine("error",
                                "errors.E: bad call from %s:%d: %v", 0, ""))
                   /\ ret' = Errorf(UnknownTypeText(a[r.bad]))
                   /\ heapE' = r.hE
                   /\ UNCHANGED heapH
             [] OTHER ->
                   /\ pc' = "built"
                   /\ LET h == Fresh(heapH)
                      IN  /\ heapH' = heapH @@ (h :> r.e)
                          /\ ret' = PHTTPErr(h)
                   /\ heapE' = r.hE
                   /\ UNCHANGED log
    /\ UNCHANGED <<nmut, rerr, w>>

----------------------------------------------------------------------------
(* The responder.                                                          *)

\* err.Error(): ok is FALSE when the call panics (a nil interface value
\* inside an HTTPErr), s is the text otherwise.
RECURSIVE ErrorText(_, _, _)
ErrorText(err, hE, hH) ==
    CASE err.k = "nil" -> [ok |-> FALSE, s |-> ""]
      [] err.k = "errorString" -> [ok |-> TRUE, s |-> err.s]
      [] err.k = "MissingField" -> [ok |-> TRUE, s |-> err.s \o " is required"]
      [] err.k = "*Error" -> [ok |-> TRUE, s |-> hE[err.addr].Err]
      [] err.k = "*HTTPErr" -> ErrorText(hH[err.addr].Err, hE, hH)

\* case hError: whether err has the methods Status, ErrKind, ErrParam, ErrCode
IsHError(err) == err.k = "*HTTPErr"

\* The struct svcError.
SvcError(kind, code, param, message) ==
    [Kind |-> kind, Code |-> code, Param |-> param, Message |-> message]

\* The JSON fields of svcError in the order of the struct, each omitempty.
SvcFields(sv) ==
    << <<"kind", sv.Kind>>, <<"code", sv.Code>>, <<"param", sv.Param>>,
       <<"message", sv.Message>> >>

\* A slip in svcError: Message without omitempty.
MarshalIndentKeepsMessage(sv) ==
    SelectSeq(SvcFields(sv), LAMBDA f : f[2] # "" \/ f[1] = "message")

\* json.MarshalIndent(errResponse{Error: sv}): the members of the object
\* "error" as name/value pairs, in order; a field tagged omitempty is left
\* out when its value is the empty string.
MarshalIndent(sv) == SelectSeq(SvcFields(sv), LAMBDA f : f[2] # "")

\* The errResponse of the hError case.
ClassifiedResponse(e, text) ==
    SvcError(KindString(e.Kind), e.Code, e.Param, text)

\* A slip in the default case: the error's own text is sent.
UnclassifiedResponseLeaks(err) ==
    SvcError(KindString(Unanticipated), "Unanticipated", "",
             ErrorText(err, heapE, heapH).s)

\* A slip in the default case: Code is left unset.
UnclassifiedResponseNoCode(err) ==
    SvcError(KindString(Unanticipated), "", "", "Unexpected error - contact support")

\* The errResponse of the default case.
UnclassifiedResponse(err) ==
    SvcError(KindString(Unanticipated), "Unanticipated", "",
             "Unexpected error - contact support")

\* A call made on the http.ResponseWriter.
HeaderSet(k, v) == [op |-> "Header.Set", k |-> k, v |-> v, code |-> 0, body |-> <<>>]
WriteHeader(code) == [op |-> "WriteHeader", k |-> "", v |-> "", code |-> code, body |-> <<>>]
Write(body) == [op |-> "Write", k |-> "", v |-> "\n", code |-> 0, body |-> body]

\* w.Header().Set(k, v)
SetHeader(wr, k, v) ==
    [header |-> {p \in wr.header : p[1] # k} \cup {<<k, v>>},
     ops |-> Append(wr.ops, HeaderSet(k, v))]

\* What w.WriteHeader(code) may do: a ResponseWriter may reject a code that
\* is not a three-digit one by panicking (net/http's writers do), or take it.
WriteHeaderPanics(code) == IF code >= 100 /\ code <= 999 THEN {FALSE} ELSE {FALSE, TRUE}

\* sendError(w, error, statusCode): the writers it can leave behind, with
\* panicked TRUE when WriteHeader panicked and the body was never written.
SendError(wr, body, statusCode) ==
    LET w1 == SetHeader(wr, "Content-Type", "application/json")
        w2 == SetHeader(w1, "X-Content-Type-Options", "nosniff")
        w3 == [w2 EXCEPT !.ops = Append(@, WriteHeader(statusCode))]
        w4 == [w3 EXCEPT !.ops = Append(@, Write(body))]
    IN  {[w |-> IF p THEN w3 ELSE w4, panicked |-> p] : p \in WriteHeaderPanics(statusCode)}

\* HTTPError(w, err)
HTTPError(err) ==
    /\ pc \in {"start", "built"}
    /\ rerr' = err
    /\ IF err = NilErr
       THEN /\ pc' = "done"
            /\ UNCHANGED <<w, log>>
       ELSE IF IsHError(err)
       THEN LET e == heapH[err.addr]
                text == ErrorText(err, heapE, heapH)
            IN  \* log.Printf formats e with %s: fmt recovers a panicking Error()
                /\ log' = Append(log, LogLine("debug", "HTTP %d - %s", e.HTTPStatusCode,
                                   IF text.ok THEN text.s ELSE "%!s(PANIC=Error method)"))
                /\ IF ~text.ok
                   THEN \* Message: e.Error() panics on a nil Err
                        /\ pc' = "panicHTTPError"
                        /\ UNCHANGED w
                   ELSE \E out \in SendError(w, MarshalIndent(ClassifiedResponse(e, text.s)),
                                             e.HTTPStatusCode) :
                            /\ w' = out.w
                            /\ pc' = IF out.panicked THEN "panicHTTPError" ELSE "done"
       ELSE LET cd == StatusInternalServerError
                text == ErrorText(err, heapE, heapH)
            IN  /\ log' = Append(log, LogLine("error", "Unknown Error - HTTP %d - %s",
                                              cd, text.s))
                /\ \E out \in SendError(w, MarshalIndent(UnclassifiedResponse(err)), cd) :
                       /\ w' = out.w
                       /\ pc' = IF out.panicked THEN "panicHTTPError" ELSE "done"
    /\ UNCHANGED <<args, ret, heapE, heapH, nmut>>

----------------------------------------------------------------------------
(* The handler's own steps on the values it holds.                         *)

\* The HTTPErr structs the handler holds a pointer to.
HeldHTTPErr == {1} \cup (IF ret.k = "*HTTPErr" THEN {ret.addr} ELSE {})

\* The Error structs the handler can reach: its own, and the ones the
\* HTTPErr structs it holds point at.
HeldError ==
    {1} \cup {heapH[h].Err.addr : h \in {g \in HeldHTTPErr : heapH[g].Err.k = "*Error"}}

\* (hse *HTTPErr) SetErr(s) on the struct at address h
SetErr(h, s) ==
    /\ pc = "built"
    /\ nmut < MaxMutations
    /\ h \in HeldHTTPErr
    /\ heapH' = [heapH EXCEPT ![h].Err = Str(s)]
    /\ nmut' = nmut + 1
    /\ UNCHANGED <<pc, args, ret, heapE, rerr, w, log>>

\* An assignment to a field of the Error struct at address a.
SetErrorField(a, s) ==
    /\ pc = "built"
    /\ nmut < MaxMutations
    /\ a \in HeldError
    /\ heapE' = [heapE EXCEPT ![a].Err = s]
    /\ nmut' = nmut + 1
    /\ UNCHANGED <<pc, args, ret, heapH, rerr, w, log>>

----------------------------------------------------------------------------
(* The request.                                                            *)

\* The values the handler draws RE's arguments from.
ArgValues ==
    { IntArg(404), IntArg(500),
      KindArg("NotFound"), KindArg("Invalid"),
      StringArg("user_missing"), CodeArg("bad_email"),
      CodeArg(""),
      ParameterArg("email"), ParameterArg("user_id"),
      ErrorArg(Str("no such user")), ErrorArg(Str("")), ErrorArg(PHTTPErr(1)),
      PErrorArg(1), PErrorArg(NilAddr),
      OtherArg("float64", "3.14"), OtherArg("<nil>", "<nil>") }

ArgLists == UNION {[1..n -> ArgValues] : n \in 0..MaxArgs}

\* The five arguments of the order-independence property, in the order
\* status, kind, code, parameter, cause.
CanonicalLists ==
    { <<IntArg(st), KindArg(k), CodeArg("bad_email"), ParameterArg("email"),
        ErrorArg(Str("x"))>> : st \in {404, 500}, k \in {"NotFound", "Invalid"} }

PermLists ==
    { [i \in 1..5 |-> base[pi[i]]] : base \in CanonicalLists, pi \in Permutations(1..5) }

\* The errors a handler gives to HTTPError without calling RE.
OtherErrors ==
    { NilErr, Str("disk full"), Str("no such user"), MissingField("email"),
      PError(1), PHTTPErr(1) }

\* An HTTPErr built earlier: RE(404, NotFound, errors.New("no such user")).
EarlierHTTPErr ==
    RE(<<IntArg(404), KindArg("NotFound"), ErrorArg(Str("no such user"))>>, <<>>).e

Init ==
    /\ pc = "start"
    /\ args = <<>>
    /\ ret = NilErr
    /\ heapE = (1 :> ErrorObj("db down"))
    /\ heapH = (1 :> EarlierHTTPErr)
    /\ nmut = 0
    /\ rerr = NilErr
    /\ w = [header |-> {}, ops |-> <<>>]
    /\ log = <<>>

Build == pc = "start" /\ \E a \in ArgLists : RECall(a)

BuildPermuted == pc = "start" /\ \E a \in PermLists : RECall(a)

MutateHTTPErr == pc = "built" /\ \E h \in DOMAIN heapH : SetErr(h, "changed")

MutateError == pc = "built" /\ \E a \in DOMAIN heapE : SetErrorField(a, "changed")

HandleBuilt == pc = "built" /\ HTTPError(ret)

HandleOther == pc = "start" /\ \E err \in OtherErrors : HTTPError(err)

Next == Build \/ MutateHTTPErr \/ MutateError \/ HandleBuilt \/ HandleOther

Spec == Init /\ [][Next]_vars

NextPerm == BuildPermuted \/ MutateHTTPErr \/ MutateError \/ HandleBuilt \/ HandleOther

SpecPerm == Init /\ [][NextPerm]_vars

----------------------------------------------------------------------------
(* What the properties below read off the state.                           *)

\* HTTPError has been called and has returned or panicked.
Responded == pc \in {"done", "panicHTTPError"}

\* err is a non-nil error without the methods of hError.
Unclassified(err) == err # NilErr /\ ~IsHError(err)

StatusWrites == SelectSeq(w.ops, LAMBDA o : o.op = "WriteHeader")
BodyWrites == SelectSeq(w.ops, LAMBDA o : o.op = "Write")

\* The body written (the empty object when none was).
Body == IF Len(BodyWrites) = 0 THEN <<>> ELSE BodyWrites[1].body

HasField(b, name) == \E i \in 1..Len(b) : b[i][1] = name
Field(b, name) == IF HasField(b, name) THEN (CHOOSE f \in {b[i] : i \in 1..Len(b)} : f[1] = name)[2] ELSE ""
FieldNames(b) == [i \in 1..Len(b) |-> b[i][1]]

GenericMessage == "Unexpected error - contact support"

\* The arguments of a list whose type is one of types, in order.
OfTypes(a, types) == SelectSeq(a, LAMBDA x : x.t \in types)
Supplied(a, types) == Len(OfTypes(a, types)) > 0
Last(a, types) == OfTypes(a, types)[Len(OfTypes(a, types))]

CauseTypes == {"*Error", "error"}
AllRecognized(a) == \A i \in 1..Len(a) : a[i].t \in RecognizedTypes
FirstUnknown(a) == OfTypes(a, {a[i].t : i \in 1..Len(a)} \ RecognizedTypes)[1]

\* RE has returned an HTTPErr and HTTPError was then given it, unchanged.
RespondedToBuilt == Responded /\ rerr = ret /\ IsHError(ret) /\ nmut = 0

\* The struct a pointer designates in the given heaps.
Deref(p, hE, hH) == IF p.k = "*Error" THEN hE[p.addr] ELSE hH[p.addr]

----------------------------------------------------------------------------
(* Properties.                                                             *)

\* C1: for every non-nil error without the hError methods, HTTPError writes
\* status 500 and one body that is the same whatever the error's text is,
\* with the fixed message; the error's text is in the log line written for
\* it and in no field of the body.
C1_UnclassifiedIsGeneric ==
    (Responded /\ Unclassified(rerr)) =>
        /\ pc = "done"
        /\ StatusWrites = <<WriteHeader(500)>>
        /\ Len(BodyWrites) = 1
        /\ Body = << <<"kind", "Unanticipated">>, <<"code", "Unanticipated">>,
                     <<"message", GenericMessage>> >>
        /\ Field(Body, "message") = GenericMessage
        /\ Len(log) > 0
        /\ log[Len(log)].lvl = "error"
        /\ log[Len(log)].s = ErrorText(rerr, heapE, heapH).s
        /\ \A i \in 1..Len(Body) : Body[i][2] # ErrorText(rerr, heapE, heapH).s

C1_Witness ==
    /\ pc = "done"
    /\ rerr = MissingField("email")
    /\ Len(BodyWrites) = 1
    /\ log[Len(log)].s = "email is required"

\* C2 as claimed: on the unclassified path the object "error" of the body
\* has exactly the two fields kind and message; code and param are absent.
C2_TwoFieldsOnly ==
    (Responded /\ Unclassified(rerr)) =>
        /\ FieldNames(Body) = <<"kind", "message">>
        /\ Field(Body, "kind") = "Unanticipated"
        /\ Field(Body, "message") = GenericMessage

\* C2 as amended: on the unclassified path the object "error" of the body
\* has exactly the three fields kind = "Unanticipated", code =
\* "Unanticipated" and message = the fixed message; param is absent.
C2_ThreeFields ==
    (Responded /\ Unclassified(rerr)) =>
        /\ FieldNames(Body) = <<"kind", "code", "message">>
        /\ Field(Body, "kind") = "Unanticipated"
        /\ Field(Body, "code") = "Unanticipated"
        /\ Field(Body, "message") = GenericMessage
        /\ ~HasField(Body, "param")

C2_Witness ==
    /\ pc = "done"
    /\ rerr = Str("disk full")
    /\ HasField(Body, "code")

\* C3 as claimed: for an HTTPErr built by RE with a cause, the status
\* HTTPError writes is the last int argument, or 500 when RE was given no
\* int; status 0 is never written.
C3_StatusDefaultsTo500 ==
    (RespondedToBuilt /\ heapH[ret.addr].Err # NilErr) =>
        /\ StatusWrites =
              <<WriteHeader(IF Supplied(args, {"int"}) THEN Last(args, {"int"}).n
                            ELSE 500)>>
        /\ \A i \in 1..Len(w.ops) : w.ops[i] # WriteHeader(0)

\* C3, the part that holds: when RE was given an int, the status HTTPError
\* writes is the last int given.
C3_StatusIsLastInt ==
    (RespondedToBuilt /\ heapH[ret.addr].Err # NilErr /\ Supplied(args, {"int"})) =>
        StatusWrites = <<WriteHeader(Last(args, {"int"}).n)>>

\* C4: for an argument list of recognized types only that holds a cause,
\* the body HTTPError writes has kind, code, param and message equal to the
\* last value supplied for each (a string and a Code both set code), the
\* message being the text of the cause.
C4_BodyIsLastSupplied ==
    (pc = "done" /\ RespondedToBuilt /\ AllRecognized(args) /\ Supplied(args, CauseTypes)) =>
        /\ Len(BodyWrites) = 1
        /\ Field(Body, "kind") =
              KindString(IF Supplied(args, {"Kind"}) THEN Last(args, {"Kind"}).s ELSE KindZero)
        /\ Field(Body, "code") =
              (IF Supplied(args, {"string", "Code"}) THEN Last(args, {"string", "Code"}).s ELSE "")
        /\ Field(Body, "param") =
              (IF Supplied(args, {"Parameter"}) THEN Last(args, {"Parameter"}).s ELSE "")
        /\ Field(Body, "message") = ErrorText(Last(args, CauseTypes).e, heapE, heapH).s

C4_Witness ==
    /\ pc = "done"
    /\ RespondedToBuilt
    /\ args = <<IntArg(404), StringArg("user_missing"), ErrorArg(Str("no such user"))>>
    /\ StatusWrites = <<WriteHeader(404)>>
    /\ Body = << <<"kind", "Unanticipated">>, <<"code", "user_missing">>,
                 <<"message", "no such user">> >>

\* C5: given the five arguments status, Kind, Code, Parameter and cause in
\* any order, RE builds the HTTPErr it builds for the canonical order.
C5_OrderIndependent ==
    (pc = "built" /\ nmut = 0 /\ args \in PermLists) =>
        /\ ret.k = "*HTTPErr"
        /\ \E base \in CanonicalLists :
              /\ \A i \in 1..5 : \E j \in 1..5 : args[j] = base[i]
              /\ heapH[ret.addr] = RE(base, heapE).e

C5_Witness ==
    /\ pc = "built"
    /\ args \in PermLists \ CanonicalLists
    /\ args[1].t = "error"
    /\ args[5].t = "int"
    /\ heapH[ret.addr].HTTPStatusCode = 500

\* C6 as claimed: every HTTPErr RE returns has a non-nil cause.
C6_CauseNeverNil ==
    (pc = "built" /\ ret.k = "*HTTPErr") => heapH[ret.addr].Err # NilErr

\* C7 as claimed: given a non-empty argument list holding an argument of
\* unknown type, whatever the other arguments are, RE does not panic and
\* returns no HTTPErr: it returns an error whose text names the type and
\* value of that argument, and logs the bad call.
C7_UnknownTypeNeverPanics ==
    (pc # "start" /\ Len(args) > 0 /\ ~AllRecognized(args)) =>
        /\ pc # "panicRE"
        /\ ret.k = "errorString"
        /\ ret.s = UnknownTypeText(FirstUnknown(args))
        /\ \E i \in 1..Len(log) : log[i].fmt = "errors.E: bad call from %s:%d: %v"

\* C7, the part that holds: when no nil *Error comes before the first
\* argument of unknown type, RE does not panic, returns an error whose text
\* names that argument's type and value, and logs the bad call.
C7_UnknownTypeReturnsError ==
    (pc # "start" /\ Len(args) > 0 /\ ~AllRecognized(args)
       /\ \A i \in 1..Len(args) :
             args[i] = PErrorArg(NilAddr) => \E j \in 1..(i - 1) : args[j].t \notin RecognizedTypes) =>
        /\ pc # "panicRE"
        /\ ret.k = "errorString"
        /\ ret.s = UnknownTypeText(FirstUnknown(args))
        /\ \E i \in 1..Len(log) : log[i].fmt = "errors.E: bad call from %s:%d: %v"

EmbedsPointer(k) ==
    /\ pc = "built"
    /\ ret.k = "*HTTPErr"
    /\ Supplied(args, CauseTypes)
    /\ Last(args, CauseTypes).e.k = k
    /\ heapH[ret.addr].Err.k = k

\* A step leaves the struct behind the embedded cause alone when it changes
\* the struct behind the argument, and the other way round.
Independent ==
    LET orig == Last(args, CauseTypes).e
        emb == heapH[ret.addr].Err
    IN  /\ Deref(orig, heapE', heapH') # Deref(orig, heapE, heapH)
             => Deref(emb, heapE', heapH') = Deref(emb, heapE, heapH)
        /\ Deref(emb, heapE', heapH') # Deref(emb, heapE, heapH)
             => Deref(orig, heapE', heapH') = Deref(orig, heapE, heapH)

\* C9 as claimed: when RE is given an existing classified error (a *Error
\* or a *HTTPErr), the cause it embeds is a copy: a later change of the
\* original leaves the embedded one unchanged, and the other way round.
C9_CauseIsCopy ==
    [][(EmbedsPointer("*Error") \/ EmbedsPointer("*HTTPErr")) => Independent]_vars

\* C9 as amended: when RE is given a *Error, the cause it embeds is a copy:
\* a later change of a field of the original leaves the embedded one
\* unchanged, and the other way round.  (A *HTTPErr is embedded as given.)
C9_ErrorCauseIsCopy ==
    [][EmbedsPointer("*Error") => Independent]_vars

C9_Witness ==
    /\ EmbedsPointer("*Error")
    /\ Last(args, CauseTypes).e = PError(1)
    /\ nmut = 1
    /\ heapE[1].Err = "changed"
    /\ heapE[heapH[ret.addr].Err.addr].Err = "db down"

\* C10 as claimed: HTTPError makes no call on the writer when err is nil;
\* otherwise it sets Content-Type and X-Content-Type-Options, then writes
\* the status once, then writes the body once, and nothing else.
C10_WriterCalls ==
    Responded =>
        IF rerr = NilErr
        THEN w.ops = <<>>
        ELSE /\ Len(w.ops) = 4
             /\ w.ops[1] = HeaderSet("Content-Type", "application/json")
             /\ w.ops[2] = HeaderSet("X-Content-Type-Options", "nosniff")
             /\ w.ops[3].op = "WriteHeader"
             /\ w.ops[4].op = "Write"
             /\ w.header = {<<"Content-Type", "application/json">>,
                            <<"X-Content-Type-Options", "nosniff">>}

\* C10, the part that holds: whenever HTTPError returns, it has made no call
\* on the writer for a nil err, and the four calls in order otherwise.
C10_WriterCallsOnReturn == pc = "done" => C10_WriterCalls

====
